---- MODULE Spec2Model ----
(***************************************************************************)
(* Model of the single-file Flask file-sharing application (src/app.py).   *)
(*                                                                         *)
(* State: the sqlite table `files`, the upload directory, the wall clock,  *)
(* and the position and local variables of every request handler that is   *)
(* currently running.  Each handler is cut into steps at the points where  *)
(* it touches the database, the file system or the clock, so that          *)
(* concurrent requests interleave as they do in a threaded server.         *)
(***************************************************************************)
EXTENDS Integers, FiniteSets, Sequences, TLC

\* ---------------------------------------------------------------------
\* Bounds of the model
\* ---------------------------------------------------------------------
\* number of request handlers that may run at the same time
NReq == 2
\* number of share ids secrets.token_urlsafe can hand out in one behaviour
MaxIds == 2
\* last clock value
MaxNow == 2
\* clock ticks per hour (resolution of the modelled clock)
HOUR == 1
\* cap of the downloads column
MaxDownloads == 2
\* largest number of rows in the tables the listing is applied to
MaxList == 22

\* ---------------------------------------------------------------------
\* Program constants
\* ---------------------------------------------------------------------
\* 24*7 in upload()
MAX_HOURS == 168
\* default of request.form.get("expires", type=int, default=24)
DEFAULT_HOURS == 24
\* LIMIT 20 in recent()
RECENT_LIMIT == 20

Reqs == 1..NReq
Ids == 1..MaxIds

\* Python None of an Optional[datetime]
NoneT == -1
\* SQL NULL / Python None of an Optional[str]
NULL == <<>>
\* the form field "expires" is absent or is not an integer
NoHours == -1000

VARIABLES
  now,      \* utcnow(): the wall clock, in ticks
  rows,     \* the table `files`: a set of rows, at most one per id
  files,    \* the stored names present in UPLOAD_DIR
  nextId,   \* number of tokens secrets.token_urlsafe has issued
  req,      \* the request handlers: position and local variables
  resp,     \* the response event produced by the latest step, if any
  hist,     \* history: per id, whether its row was inserted, with which expires_at,
            \* and whether a write or a removal of its file has failed
  served    \* history: per id, the number of responses that carried the file

vars == <<now, rows, files, nextId, req, resp, hist, served>>

\* ---------------------------------------------------------------------
\* Utilities
\* ---------------------------------------------------------------------
\* datetime.isoformat() of an aware UTC datetime, None for None
to_iso(dt) == IF dt = NoneT THEN NULL ELSE <<"iso", dt>>

\* datetime.fromisoformat(), None for None / empty
from_iso(s) == IF s = NULL THEN NoneT ELSE s[2]

\* fetchone() returned None
NoRow == [id |-> 0, stored_name |-> 0, created_at |-> NULL, expires_at |-> NULL,
          one_time |-> 0, downloads |-> 0]

\* SELECT * FROM files WHERE id=? ... fetchone()
SelectRow(tbl, fid) ==
  IF \E x \in tbl : x.id = fid THEN CHOOSE x \in tbl : x.id = fid ELSE NoRow

\* DELETE FROM files WHERE id=?
DeleteRow(tbl, fid) == {x \in tbl : x.id # fid}

\* mutant of IncrementDownloads: the UPDATE has no WHERE clause
IncrementDownloadsAll(tbl, fid) ==
  {[x EXCEPT !.downloads = x.downloads + 1] : x \in tbl}

\* mutant of IncrementDownloads: an upsert, which writes a row when there is none
IncrementDownloadsUpsert(tbl, fid) ==
  IF \E x \in tbl : x.id = fid
    THEN {IF x.id = fid THEN [x EXCEPT !.downloads = x.downloads + 1] ELSE x : x \in tbl}
    ELSE tbl \cup {[id |-> fid, stored_name |-> fid, created_at |-> NULL,
                    expires_at |-> NULL, one_time |-> 0, downloads |-> 1]}

\* UPDATE files SET downloads=downloads+1 WHERE id=?
IncrementDownloads(tbl, fid) ==
  {IF x.id = fid THEN [x EXCEPT !.downloads = x.downloads + 1] ELSE x : x \in tbl}

\* INSERT INTO files (...) VALUES (...); downloads takes its DEFAULT 0
InsertRow(tbl, fid, stored, created, expires, one) ==
  tbl \cup {[id |-> fid, stored_name |-> stored, created_at |-> created,
             expires_at |-> expires, one_time |-> one, downloads |-> 0]}

\* hours = request.form.get("expires", type=int, default=24)
FormHours(h) == IF h = NoHours THEN DEFAULT_HOURS ELSE h

\* if hours and hours > 0: expires_at = utcnow() + timedelta(hours=min(hours, 24*7))
ExpiresAt(hours, t) ==
  IF hours # 0 /\ hours > 0
    THEN t + (IF hours < MAX_HOURS THEN hours ELSE MAX_HOURS) * HOUR
    ELSE NoneT

\* mutant of IsExpired: expired from the instant expires_at on (>= for >)
IsExpiredInclusive(row, t) ==
  LET expires_at == IF row.expires_at # NULL THEN from_iso(row.expires_at) ELSE NoneT
  IN  expires_at # NoneT /\ t >= expires_at

\* mutant of IsExpired: the comparison is the wrong way round
IsExpiredInverted(row, t) ==
  LET expires_at == IF row.expires_at # NULL THEN from_iso(row.expires_at) ELSE NoneT
  IN  expires_at # NoneT /\ t < expires_at

\* expires_at = from_iso(row["expires_at"]) ...; expires_at and utcnow() > expires_at
IsExpired(row, t) ==
  LET expires_at == IF row.expires_at # NULL THEN from_iso(row.expires_at) ELSE NoneT
  IN  expires_at # NoneT /\ t > expires_at

\* os.path.join(UPLOAD_DIR, row["stored_name"])
FilePath(row) == row.stored_name

\* a handler that is not running
Idle == [kind |-> "none", pc |-> "idle", fid |-> 0, row |-> NoRow, hours |-> 0,
         mode |-> "", expires_at |-> NoneT, err |-> "", result |-> "", sent |-> ""]

\* the step produced no response
NoResp == [kind |-> "none", fid |-> 0, result |-> "", err |-> "", sent |-> "", hours |-> 0,
           list |-> <<>>]

\* the response event of handler state q with result res
Response(q, res) ==
  [kind |-> q.kind, fid |-> q.fid, result |-> res, err |-> q.err, sent |-> q.sent,
   hours |-> q.hours, list |-> <<>>]

\* no request is in progress
Quiescent == \A r \in Reqs : req[r] = Idle

\* the row of fid is in the table
RowPresent(fid) == \E x \in rows : x.id = fid

\* the row of fid has been inserted at some time
Inserted(fid) == hist[fid].inserted

\* the row of fid was inserted and is no longer in the table
Removed(fid) == Inserted(fid) /\ ~RowPresent(fid)

TypeOK ==
  /\ now \in 0..MaxNow
  /\ nextId \in 0..MaxIds
  /\ files \subseteq Ids
  /\ \A x \in rows : x.id \in Ids /\ x.downloads \in 0..MaxDownloads
  /\ \A x, y \in rows : x.id = y.id => x = y
  /\ \A r \in Reqs : req[r].pc \in {"idle", "u_insert", "d_exists", "d_update", "d_close",
                                   "x_exists", "x_remove", "x_delrow"}

Init ==
  /\ now = 0
  /\ rows = {}
  /\ files = {}
  /\ nextId = 0
  /\ req = [r \in Reqs |-> Idle]
  /\ resp = NoResp
  /\ hist = [i \in Ids |-> [inserted |-> FALSE, expires_at |-> NULL, failed |-> FALSE]]
  /\ served = [i \in Ids |-> 0]

\* ---------------------------------------------------------------------
\* The clock
\* ---------------------------------------------------------------------
Tick ==
  /\ now < MaxNow
  /\ now' = now + 1
  /\ resp' = NoResp
  /\ UNCHANGED <<rows, files, nextId, req, hist, served>>

\* ---------------------------------------------------------------------
\* POST /upload
\* ---------------------------------------------------------------------
\* values of the form field "expires" the requests of Spec carry
ExpiresInputs == {0, 1}

\* no file part, or an empty file name: flash and redirect to the index
UploadNoFile(r) ==
  /\ req[r] = Idle
  /\ resp' = Response([Idle EXCEPT !.kind = "upload"], "no_file")
  /\ UNCHANGED <<now, rows, files, nextId, req, hist, served>>

\* fid = secrets.token_urlsafe(8); f.save(path); expires_at from utcnow()
UploadSave(r, h, m) ==
  /\ req[r] = Idle
  /\ nextId < MaxIds
  /\ LET fid == nextId + 1
         hours == FormHours(h)
     IN  /\ nextId' = fid
         /\ files' = files \cup {fid}
         /\ req' = [req EXCEPT ![r] = [Idle EXCEPT !.kind = "upload", !.pc = "u_insert",
                                                   !.fid = fid, !.hours = h, !.mode = m,
                                                   !.expires_at = ExpiresAt(hours, now)]]
  /\ resp' = NoResp
  /\ UNCHANGED <<now, rows, hist, served>>

\* INSERT ... created_at = to_iso(utcnow()), expires_at = to_iso(expires_at); redirect
UploadInsert(r) ==
  /\ req[r].pc = "u_insert"
  /\ LET fid == req[r].fid
         one_time == IF req[r].mode = "one" THEN 1 ELSE 0
         tbl == InsertRow(rows, fid, fid, to_iso(now), to_iso(req[r].expires_at), one_time)
     IN  /\ rows' = tbl
         /\ hist' = [hist EXCEPT ![fid].inserted = TRUE,
                                  ![fid].expires_at = SelectRow(tbl, fid).expires_at]
  /\ req' = [req EXCEPT ![r] = Idle]
  /\ resp' = Response(req[r], "redirect")
  /\ UNCHANGED <<now, files, nextId, served>>

\* ---------------------------------------------------------------------
\* _delete_file_record(row), entered from view_file, download and _cleanup
\* ---------------------------------------------------------------------
\* mutant of AfterDelete: download answers abort(404) after the expiry purge
AfterDeleteNotFound(q) ==
  IF q.result = "file"
    THEN Response(q, "cleaned")
    ELSE IF q.err # ""
      THEN Response(q, "500")
      ELSE Response(q, IF q.kind = "view" THEN "expired" ELSE "404")

\* what the caller answers once _delete_file_record has returned or raised:
\* _cleanup swallows the exception, view_file and download let it propagate
AfterDelete(q) ==
  IF q.result = "file"
    THEN Response(q, "cleaned")
    ELSE IF q.err # ""
      THEN Response(q, "500")
      ELSE Response(q, IF q.kind = "view" THEN "expired" ELSE "410")

\* if os.path.exists(file_path): the file is there, os.remove comes next
DeleteExistsTrue(r) ==
  /\ req[r].pc = "x_exists"
  /\ FilePath(req[r].row) \in files
  /\ req' = [req EXCEPT ![r].pc = "x_remove"]
  /\ resp' = NoResp
  /\ UNCHANGED <<now, rows, files, nextId, hist, served>>

\* if os.path.exists(file_path): no file; finally: DELETE the row
DeleteExistsFalse(r) ==
  /\ req[r].pc = "x_exists"
  /\ FilePath(req[r].row) \notin files
  /\ rows' = DeleteRow(rows, req[r].row.id)
  /\ req' = [req EXCEPT ![r] = Idle]
  /\ resp' = AfterDelete(req[r])
  /\ UNCHANGED <<now, files, nextId, hist, served>>

\* os.remove(file_path); FileNotFoundError when another request removed it first
DeleteRemove(r) ==
  /\ req[r].pc = "x_remove"
  /\ files' = files \ {FilePath(req[r].row)}
  /\ req' = [req EXCEPT ![r].pc = "x_delrow",
                        ![r].err = IF FilePath(req[r].row) \in files THEN "" ELSE "remove"]
  /\ resp' = NoResp
  /\ UNCHANGED <<now, rows, nextId, hist, served>>

\* mutant of DeleteRowStep: the DELETE is left out
DeleteRowStepSkip(r) ==
  /\ req[r].pc = "x_delrow"
  /\ req' = [req EXCEPT ![r] = Idle]
  /\ resp' = AfterDelete(req[r])
  /\ UNCHANGED <<now, rows, files, nextId, hist, served>>

\* finally: DELETE FROM files WHERE id=?; then the exception, if any, propagates
DeleteRowStep(r) ==
  /\ req[r].pc = "x_delrow"
  /\ rows' = DeleteRow(rows, req[r].row.id)
  /\ req' = [req EXCEPT ![r] = Idle]
  /\ resp' = AfterDelete(req[r])
  /\ UNCHANGED <<now, files, nextId, hist, served>>

\* ---------------------------------------------------------------------
\* GET /f/<fid>
\* ---------------------------------------------------------------------
\* SELECT * FROM files WHERE id=?; abort(404) when there is no row;
\* expired = expires_at and utcnow() > expires_at; purge, or render the page.
\* (The clock read commutes with every step of the other handlers, so the
\* lookup and the expiry test are one step.)
ViewLookup(r, fid) ==
  /\ req[r] = Idle
  /\ LET row == SelectRow(rows, fid)
         q == [Idle EXCEPT !.kind = "view", !.fid = fid, !.row = row]
     IN  IF row = NoRow
           THEN /\ resp' = Response(q, "404")
                /\ UNCHANGED req
           ELSE IF IsExpired(row, now)
             THEN /\ req' = [req EXCEPT ![r] = [q EXCEPT !.pc = "x_exists"]]
                  /\ resp' = NoResp
             ELSE /\ resp' = Response(q, "page")
                  /\ UNCHANGED req
  /\ UNCHANGED <<now, rows, files, nextId, hist, served>>

\* ---------------------------------------------------------------------
\* GET /d/<fid>
\* ---------------------------------------------------------------------
\* downloads of fid that have been looked up and have not yet run the UPDATE
BeforeUpdate(fid) ==
  Cardinality({q \in Reqs : /\ req[q].kind = "download"
                            /\ req[q].fid = fid
                            /\ req[q].pc \in {"d_exists", "d_update"}})

\* SELECT * FROM files WHERE id=?; abort(404) when there is no row;
\* if expires_at and utcnow() > expires_at: _delete_file_record(row); abort(410)
DownloadLookup(r, fid) ==
  /\ req[r] = Idle
  /\ LET row == SelectRow(rows, fid)
         q == [Idle EXCEPT !.kind = "download", !.fid = fid, !.row = row]
     IN  /\ row # NoRow => row.downloads + BeforeUpdate(fid) < MaxDownloads
         /\ IF row = NoRow
              THEN /\ resp' = Response(q, "404")
                   /\ UNCHANGED req
              ELSE /\ req' = [req EXCEPT ![r] =
                                [q EXCEPT !.pc = IF IsExpired(row, now) THEN "x_exists"
                                                                         ELSE "d_exists"]]
                   /\ resp' = NoResp
  /\ UNCHANGED <<now, rows, files, nextId, hist, served>>

\* mutant of DownloadFileMissing: abort(404) without _delete_row_only
DownloadFileMissingKeepRow(r) ==
  /\ req[r].pc = "d_exists"
  /\ FilePath(req[r].row) \notin files
  /\ req' = [req EXCEPT ![r] = Idle]
  /\ resp' = Response(req[r], "404")
  /\ UNCHANGED <<now, rows, files, nextId, hist, served>>

\* if not os.path.exists(file_path): _delete_row_only(row["id"]); abort(404)
DownloadFileMissing(r) ==
  /\ req[r].pc = "d_exists"
  /\ FilePath(req[r].row) \notin files
  /\ rows' = DeleteRow(rows, req[r].row.id)
  /\ req' = [req EXCEPT ![r] = Idle]
  /\ resp' = Response(req[r], "404")
  /\ UNCHANGED <<now, files, nextId, hist, served>>

\* os.path.exists(file_path) holds: go on to the UPDATE
DownloadFileExists(r) ==
  /\ req[r].pc = "d_exists"
  /\ FilePath(req[r].row) \in files
  /\ req' = [req EXCEPT ![r].pc = "d_update"]
  /\ resp' = NoResp
  /\ UNCHANGED <<now, rows, files, nextId, hist, served>>

\* mutant of DownloadSend: the counter is written back from the row read at
\* the lookup (downloads = row["downloads"] + 1) instead of downloads+1 in SQL
DownloadSendStale(r) ==
  /\ req[r].pc = "d_update"
  /\ FilePath(req[r].row) \in files
  /\ rows' = {IF x.id = req[r].fid
                THEN [x EXCEPT !.downloads = req[r].row.downloads + 1] ELSE x : x \in rows}
  /\ req' = [req EXCEPT ![r].pc = "d_close", ![r].result = "file"]
  /\ resp' = Response(req[r], "file")
  /\ served' = [served EXCEPT ![req[r].fid] = @ + 1]
  /\ UNCHANGED <<now, files, nextId, hist>>

\* UPDATE files SET downloads=downloads+1 WHERE id=?; send_file(file_path, ...)
\* opens the file and the response starts.
\* (The UPDATE touches the table alone and the open the directory alone, so
\* they are one step.)
DownloadSend(r) ==
  /\ req[r].pc = "d_update"
  /\ FilePath(req[r].row) \in files
  /\ rows' = IncrementDownloads(rows, req[r].fid)
  /\ req' = [req EXCEPT ![r].pc = "d_close", ![r].result = "file"]
  /\ resp' = Response(req[r], "file")
  /\ served' = [served EXCEPT ![req[r].fid] = @ + 1]
  /\ UNCHANGED <<now, files, nextId, hist>>

\* the same UPDATE, but send_file raises FileNotFoundError: the file went away
\* after the exists check
DownloadSendFails(r) ==
  /\ req[r].pc = "d_update"
  /\ FilePath(req[r].row) \notin files
  /\ rows' = IncrementDownloads(rows, req[r].fid)
  /\ req' = [req EXCEPT ![r] = Idle]
  /\ resp' = Response([req[r] EXCEPT !.err = "send"], "500")
  /\ UNCHANGED <<now, files, nextId, hist, served>>

\* mutant of DownloadClose: _cleanup runs only after the whole stream was sent
DownloadCloseFullOnly(r, how) ==
  /\ req[r].pc = "d_close"
  /\ req' = [req EXCEPT ![r] = IF req[r].row.one_time # 0 /\ how = "full"
                                 THEN [req[r] EXCEPT !.pc = "x_exists", !.sent = how]
                                 ELSE Idle]
  /\ resp' = Response([req[r] EXCEPT !.sent = how], "closed")
  /\ UNCHANGED <<now, rows, files, nextId, hist, served>>

\* mutant of DownloadClose: _cleanup is registered for every record
DownloadCloseAlways(r, how) ==
  /\ req[r].pc = "d_close"
  /\ req' = [req EXCEPT ![r] = [req[r] EXCEPT !.pc = "x_exists", !.sent = how]]
  /\ resp' = Response([req[r] EXCEPT !.sent = how], "closed")
  /\ UNCHANGED <<now, rows, files, nextId, hist, served>>

\* mutant of DownloadClose: no _cleanup is registered on the response
DownloadCloseNoCleanup(r, how) ==
  /\ req[r].pc = "d_close"
  /\ req' = [req EXCEPT ![r] = Idle]
  /\ resp' = Response([req[r] EXCEPT !.sent = how], "closed")
  /\ UNCHANGED <<now, rows, files, nextId, hist, served>>

\* the response is closed, after the whole stream (full) or after a part of it
\* (partial); call_on_close runs _cleanup when row["one_time"]
DownloadClose(r, how) ==
  /\ req[r].pc = "d_close"
  /\ req' = [req EXCEPT ![r] = IF req[r].row.one_time # 0
                                 THEN [req[r] EXCEPT !.pc = "x_exists", !.sent = how]
                                 ELSE Idle]
  /\ resp' = Response([req[r] EXCEPT !.sent = how], "closed")
  /\ UNCHANGED <<now, rows, files, nextId, hist, served>>

\* ---------------------------------------------------------------------
\* GET /recent
\* ---------------------------------------------------------------------
\* created_at is TEXT and ORDER BY compares the strings.  to_iso writes every
\* value in UTC with the same layout (a fraction of a second, when present,
\* follows the seconds and '.' sorts after '+'), so the order of the strings
\* is the order of the instants they denote.
IsoLess(a, b) == from_iso(a) < from_iso(b)

\* mutant of OrderByCreatedDesc: ORDER BY created_at ASC
RECURSIVE OrderByCreatedAsc(_)
OrderByCreatedAsc(tbl) ==
  IF tbl = {}
    THEN {<<>>}
    ELSE LET first == {x \in tbl : \A y \in tbl : ~IsoLess(y.created_at, x.created_at)}
         IN  UNION {{<<x>> \o t : t \in OrderByCreatedAsc(tbl \ {x})} : x \in first}

\* ORDER BY created_at DESC: the rows, latest created_at first; SQL leaves the
\* order of rows with equal created_at open, so this is the set of all the
\* sequences the query may produce
RECURSIVE OrderByCreatedDesc(_)
OrderByCreatedDesc(tbl) ==
  IF tbl = {}
    THEN {<<>>}
    ELSE LET first == {x \in tbl : \A y \in tbl : ~IsoLess(x.created_at, y.created_at)}
         IN  UNION {{<<x>> \o t : t \in OrderByCreatedDesc(tbl \ {x})} : x \in first}

\* mutant of Limit: the LIMIT clause is left out
LimitNone(s, n) == s

\* LIMIT n
Limit(s, n) == IF Len(s) <= n THEN s ELSE SubSeq(s, 1, n)

\* mutant of Recent: the query leaves out the rows past their expires_at
RecentHidesExpired(r) ==
  /\ req[r] = Idle
  /\ \E s \in OrderByCreatedDesc({x \in rows : ~IsExpired(x, now)}) :
       LET items == Limit(s, RECENT_LIMIT)
       IN  resp' = [Response([Idle EXCEPT !.kind = "recent"], "list")
                      EXCEPT !.list = [i \in 1..Len(items) |-> items[i].id]]
  /\ UNCHANGED <<now, rows, files, nextId, req, hist, served>>

\* SELECT id, original_name, size_bytes FROM files
\*   ORDER BY created_at DESC LIMIT 20; the page lists the ids in that order
Recent(r) ==
  /\ req[r] = Idle
  /\ \E s \in OrderByCreatedDesc(rows) :
       LET items == Limit(s, RECENT_LIMIT)
       IN  resp' = [Response([Idle EXCEPT !.kind = "recent"], "list")
                      EXCEPT !.list = [i \in 1..Len(items) |-> items[i].id]]
  /\ UNCHANGED <<now, rows, files, nextId, req, hist, served>>

\* ---------------------------------------------------------------------
\* Specification: concurrent requests, no I/O failure
\* ---------------------------------------------------------------------
Next ==
  \/ Tick
  \/ \E r \in Reqs : UploadNoFile(r)
  \/ \E r \in Reqs, h \in ExpiresInputs, m \in {"standard", "one"} : UploadSave(r, h, m)
  \/ \E r \in Reqs : UploadInsert(r)
  \/ \E r \in Reqs, fid \in Ids : ViewLookup(r, fid)
  \/ \E r \in Reqs, fid \in Ids : DownloadLookup(r, fid)
  \/ \E r \in Reqs : DownloadFileMissing(r)
  \/ \E r \in Reqs : DownloadFileExists(r)
  \/ \E r \in Reqs : DownloadSend(r)
  \/ \E r \in Reqs : DownloadSendFails(r)
  \/ \E r \in Reqs, how \in {"full", "partial"} : DownloadClose(r, how)
  \/ \E r \in Reqs : DeleteExistsTrue(r)
  \/ \E r \in Reqs : DeleteExistsFalse(r)
  \/ \E r \in Reqs : DeleteRemove(r)
  \/ \E r \in Reqs : DeleteRowStep(r)
  \/ \E r \in Reqs : Recent(r)

Spec == Init /\ [][Next]_vars

\* ---------------------------------------------------------------------
\* Specification: concurrent requests that make progress
\* ---------------------------------------------------------------------
\* A handler that has started runs to its end (the server gives every thread
\* its turn), and every response that has started is closed at some time, by
\* the end of the stream or by the client going away.
HandlerStep(r) ==
  \/ UploadInsert(r)
  \/ DownloadFileMissing(r)
  \/ DownloadFileExists(r)
  \/ DownloadSend(r)
  \/ DownloadSendFails(r)
  \/ \E how \in {"full", "partial"} : DownloadClose(r, how)
  \/ DeleteExistsTrue(r)
  \/ DeleteExistsFalse(r)
  \/ DeleteRemove(r)
  \/ DeleteRowStep(r)

\* The requests on one record do not touch the rows and the files of another,
\* so one upload is enough here: the requests race on its record.
NextLive ==
  \/ Tick
  \/ \E r \in Reqs : UploadNoFile(r)
  \/ \E r \in Reqs, h \in ExpiresInputs, m \in {"standard", "one"} :
        nextId = 0 /\ UploadSave(r, h, m)
  \/ \E r \in Reqs : UploadInsert(r)
  \/ \E r \in Reqs, fid \in Ids : ViewLookup(r, fid)
  \/ \E r \in Reqs, fid \in Ids : DownloadLookup(r, fid)
  \/ \E r \in Reqs : DownloadFileMissing(r)
  \/ \E r \in Reqs : DownloadFileExists(r)
  \/ \E r \in Reqs : DownloadSend(r)
  \/ \E r \in Reqs : DownloadSendFails(r)
  \/ \E r \in Reqs, how \in {"full", "partial"} : DownloadClose(r, how)
  \/ \E r \in Reqs : DeleteExistsTrue(r)
  \/ \E r \in Reqs : DeleteExistsFalse(r)
  \/ \E r \in Reqs : DeleteRemove(r)
  \/ \E r \in Reqs : DeleteRowStep(r)
  \/ \E r \in Reqs : Recent(r)

SpecLive == Init /\ [][NextLive]_vars /\ \A r \in Reqs : WF_vars(HandlerStep(r))

\* ---------------------------------------------------------------------
\* Specification: one request at a time
\* ---------------------------------------------------------------------
\* The steps that need a second handler at work (a file found missing, a
\* removal or an open that loses a race) are never enabled here and are left
\* out of the disjunction.
NextSeq ==
  \/ Tick
  \/ \E r \in Reqs : Quiescent /\ UploadNoFile(r)
  \/ \E r \in Reqs, h \in ExpiresInputs, m \in {"standard", "one"} :
        Quiescent /\ UploadSave(r, h, m)
  \/ \E r \in Reqs : UploadInsert(r)
  \/ \E r \in Reqs, fid \in Ids : Quiescent /\ ViewLookup(r, fid)
  \/ \E r \in Reqs, fid \in Ids : Quiescent /\ DownloadLookup(r, fid)
  \/ \E r \in Reqs : DownloadFileExists(r)
  \/ \E r \in Reqs : DownloadSend(r)
  \/ \E r \in Reqs, how \in {"full", "partial"} : DownloadClose(r, how)
  \/ \E r \in Reqs : DeleteExistsTrue(r)
  \/ \E r \in Reqs : DeleteRemove(r)
  \/ \E r \in Reqs : DeleteRowStep(r)
  \/ \E r \in Reqs : Quiescent /\ Recent(r)

SpecSeq == Init /\ [][NextSeq]_vars

\* ---------------------------------------------------------------------
\* Specification: concurrent requests and failing file operations
\* ---------------------------------------------------------------------
\* mutant of UploadSaveFails: the exception of f.save is swallowed and the
\* handler goes on to the INSERT
UploadSaveFailsInserts(r, left) ==
  /\ req[r] = Idle
  /\ nextId < MaxIds
  /\ LET fid == nextId + 1
     IN  /\ nextId' = fid
         /\ files' = IF left THEN files \cup {fid} ELSE files
         /\ hist' = [hist EXCEPT ![fid].failed = TRUE]
         /\ req' = [req EXCEPT ![r] = [Idle EXCEPT !.kind = "upload", !.pc = "u_insert",
                                                   !.fid = fid]]
         /\ resp' = NoResp
  /\ UNCHANGED <<now, rows, served>>

\* f.save(path) raises (disk full, permission denied): the request fails with a
\* 500 before the INSERT; the file may have been created (left) or not
UploadSaveFails(r, left) ==
  /\ req[r] = Idle
  /\ nextId < MaxIds
  /\ LET fid == nextId + 1
     IN  /\ nextId' = fid
         /\ files' = IF left THEN files \cup {fid} ELSE files
         /\ hist' = [hist EXCEPT ![fid].failed = TRUE]
         /\ resp' = Response([Idle EXCEPT !.kind = "upload", !.fid = fid, !.err = "save"],
                             "500")
  /\ UNCHANGED <<now, rows, req, served>>

\* os.remove(file_path) raises although the file is there (permission denied,
\* file in use): the file stays, the finally clause still deletes the row
DeleteRemoveFails(r) ==
  /\ req[r].pc = "x_remove"
  /\ FilePath(req[r].row) \in files
  /\ req' = [req EXCEPT ![r].pc = "x_delrow", ![r].err = "remove"]
  /\ hist' = [hist EXCEPT ![req[r].row.id].failed = TRUE]
  /\ resp' = NoResp
  /\ UNCHANGED <<now, rows, files, nextId, served>>

NextFail ==
  \/ Next
  \/ \E r \in Reqs, left \in BOOLEAN : UploadSaveFails(r, left)
  \/ \E r \in Reqs : DeleteRemoveFails(r)

SpecFail == Init /\ [][NextFail]_vars

\* ---------------------------------------------------------------------
\* Specification: files deleted behind the server, one request at a time
\* ---------------------------------------------------------------------
\* somebody removes a stored file from UPLOAD_DIR by hand, at any moment
OutOfBandDelete(name) ==
  /\ name \in files
  /\ files' = files \ {name}
  /\ resp' = NoResp
  /\ UNCHANGED <<now, rows, nextId, req, hist, served>>

NextOob ==
  \/ Tick
  \/ \E name \in Ids : OutOfBandDelete(name)
  \/ \E r \in Reqs : Quiescent /\ UploadNoFile(r)
  \/ \E r \in Reqs, h \in ExpiresInputs, m \in {"standard", "one"} :
        Quiescent /\ UploadSave(r, h, m)
  \/ \E r \in Reqs : UploadInsert(r)
  \/ \E r \in Reqs, fid \in Ids : Quiescent /\ ViewLookup(r, fid)
  \/ \E r \in Reqs, fid \in Ids : Quiescent /\ DownloadLookup(r, fid)
  \/ \E r \in Reqs : DownloadFileMissing(r)
  \/ \E r \in Reqs : DownloadFileExists(r)
  \/ \E r \in Reqs : DownloadSend(r)
  \/ \E r \in Reqs : DownloadSendFails(r)
  \/ \E r \in Reqs, how \in {"full", "partial"} : DownloadClose(r, how)
  \/ \E r \in Reqs : DeleteExistsTrue(r)
  \/ \E r \in Reqs : DeleteExistsFalse(r)
  \/ \E r \in Reqs : DeleteRemove(r)
  \/ \E r \in Reqs : DeleteRowStep(r)
  \/ \E r \in Reqs : Quiescent /\ Recent(r)

SpecOob == Init /\ [][NextOob]_vars

\* ---------------------------------------------------------------------
\* Specification: the listing applied to tables of up to MaxList rows
\* ---------------------------------------------------------------------
\* the ways the created_at values of n rows are laid out over the ids: in the
\* order of the ids, against it (uploads that were inserted in the reverse
\* order of their tokens), and in the order of the ids with the three oldest
\* rows inserted at the same instant
Layouts == {"asc", "desc", "tie"}

\* created_at of the i-th of n rows in layout p
CreatedIn(p, i, n) ==
  IF p = "asc" THEN i ELSE IF p = "desc" THEN n + 1 - i ELSE IF i <= 3 THEN 3 ELSE i

\* the table after n uploads, none of them downloaded or purged, the clock at
\* the latest insert
InitList ==
  \E n \in 0..MaxList, p \in Layouts :
    /\ now = n
    /\ rows = {[id |-> i, stored_name |-> i, created_at |-> to_iso(CreatedIn(p, i, n)),
                expires_at |-> NULL, one_time |-> 0, downloads |-> 0] : i \in 1..n}
    /\ files = 1..n
    /\ nextId = n
    /\ req = [r \in Reqs |-> Idle]
    /\ resp = NoResp
    /\ hist = [i \in Ids |-> [inserted |-> i <= n, expires_at |-> NULL, failed |-> FALSE]]
    /\ served = [i \in Ids |-> 0]

NextList == \E r \in Reqs : Recent(r)

SpecList == InitList /\ [][NextList]_vars

\* ---------------------------------------------------------------------
\* Properties
\* ---------------------------------------------------------------------
\* handler r serves, or has served, the file of a one-time record
ServingOneTime(r) ==
  /\ req[r].kind = "download"
  /\ req[r].result = "file"
  /\ req[r].row.one_time # 0

\* expires_at of row x is set and lies before the clock value t
PastExpiry(x, t) == x.expires_at # NULL /\ x.expires_at[2] < t

\* C1: with one request at a time, a download that finds a one-time record
\* not expired delivers the file (the file is there at the exists check and at
\* the open, no error response) and leaves downloads at 1; when its cleanup
\* has run the row and the file are gone; the file of a one-time record is
\* served once only, later downloads of the id answer 404 or 410.
C1_OneTimeSequential ==
  /\ \A r \in Reqs :
       req[r].pc \in {"d_exists", "d_update"} /\ req[r].row.one_time # 0
         => FilePath(req[r].row) \in files
  /\ \A r \in Reqs :
       ServingOneTime(r) /\ req[r].pc = "d_close"
         => /\ served[req[r].fid] = 1
            /\ SelectRow(rows, req[r].fid).downloads = 1
  /\ \A r \in Reqs : ServingOneTime(r) => served[req[r].fid] = 1
  /\ resp.result = "cleaned" => ~RowPresent(resp.fid) /\ resp.fid \notin files
  /\ \A x \in rows : x.one_time # 0 /\ Quiescent => served[x.id] = 0
  /\ resp.kind = "download" => resp.result \in {"404", "410", "file", "closed", "cleaned"}

\* C1 witness: after a one-time record was served and cleaned up, a later
\* download of the same id has just answered 404
C1_Witness ==
  /\ resp.kind = "download"
  /\ resp.result = "404"
  /\ served[resp.fid] = 1
  /\ Removed(resp.fid)
  /\ hist[resp.fid].expires_at = NULL

\* C2: a one-time record is served at most once and its counter never
\* exceeds 1, whatever the interleaving of the downloads
C2_OneTimeServedOnce ==
  /\ \A r \in Reqs : ServingOneTime(r) => served[req[r].fid] <= 1
  /\ \A x \in rows : x.one_time # 0 => x.downloads <= 1

\* C3: the counter of a standard record that has not expired equals the
\* number of responses that carried its file: no increment is lost
C3_NoLostUpdates ==
  \A x \in rows : x.one_time = 0 /\ ~PastExpiry(x, now) => x.downloads = served[x.id]

\* C3 witness: two downloads of one standard record are in flight together,
\* both have run the UPDATE, and the counter is 2
C3_Witness ==
  \E r1, r2 \in Reqs :
    /\ r1 # r2
    /\ req[r1].pc = "d_close" /\ req[r2].pc = "d_close"
    /\ req[r1].fid = req[r2].fid
    /\ req[r1].row.one_time = 0
    /\ req[r1].row.downloads = 0 /\ req[r2].row.downloads = 0
    /\ SelectRow(rows, req[r1].fid).downloads = 2

\* the step is the lookup of a view or download of fid that answers at once
AnswersAtOnce(fid) ==
  /\ req' = req
  /\ resp'.kind \in {"view", "download"}
  /\ resp'.fid = fid

\* the step is the lookup of a view or download of fid by r that goes on
GoesOn(r, fid) ==
  /\ req[r] = Idle
  /\ req'[r].kind \in {"view", "download"}
  /\ req'[r].fid = fid

\* handler r is inside _delete_file_record on behalf of the expiry check
Purging(r) ==
  /\ req[r].pc \in {"x_exists", "x_remove", "x_delrow"}
  /\ req[r].result # "file"

\* one step of the lazy expiry, with the answers a view may give after the purge
LazyExpiryStep(viewAnswers) ==
  /\ \A fid \in Ids :
       LET x == SelectRow(rows, fid)
       IN  x # NoRow /\ PastExpiry(x, now)
             => /\ ~AnswersAtOnce(fid)
                /\ \A r \in Reqs : GoesOn(r, fid)
                     => req'[r].pc = "x_exists" /\ req'[r].result = ""
  /\ \A r \in Reqs :
       Purging(r) /\ req'[r] # req[r]
         => /\ \A y \in rows' : y \in rows
            /\ served' = served
            /\ req'[r] = Idle
                 => /\ resp'.fid = req[r].fid
                    /\ resp'.result \in (IF req[r].kind = "view" THEN viewAnswers
                                                                 ELSE {"410", "500"})
                    /\ SelectRow(rows', req[r].fid) = NoRow
                    /\ FilePath(req[r].row) \notin files'
  /\ \A fid \in Ids :
       AnswersAtOnce(fid) /\ Removed(fid) => resp'.result = "404"

\* C4 (as amended): a view or download that looks up a record past its
\* expires_at never serves the file and never increments downloads; it purges
\* the record, and when it answers the row and the file are gone.  The view
\* that detects the expiry answers with the "expired" page and the download
\* with 410 (a 500 when a concurrent purge removed the file first); later
\* views and downloads of the id answer 404.
C4_LazyExpiry == [][LazyExpiryStep({"expired", "500"})]_vars

\* C4 witness: a view has purged an expired record and answered "expired"
C4_Witness ==
  /\ resp.kind = "view"
  /\ resp.result = "expired"
  /\ Removed(resp.fid)
  /\ resp.fid \notin files
  /\ PastExpiry(hist[resp.fid], now)

\* C4 as stated: the view that finds the record expired answers NotFound
C4_Original == [][LazyExpiryStep({"404"})]_vars

\* C5 (as amended): a download answers 410 only for a record that was
\* created and has expired, and it does so when its own lookup finds the row
\* still present and past expires_at (500 when a concurrent purge removed the
\* file first); it answers 404 when the lookup finds no row - the id never
\* existed or its record was purged before, expired or not - or when the file
\* is missing.
C5_GoneOnDetection ==
  [][/\ \A fid \in Ids :
          AnswersAtOnce(fid) /\ resp'.kind = "download"
            => resp'.result = "404" /\ ~RowPresent(fid)
     /\ \A r \in Reqs :
          Purging(r) /\ req[r].kind = "download" /\ req'[r] = Idle
            => /\ resp'.result \in {"410", "500"}
               /\ resp'.result = "410" <=> req[r].err = ""
     /\ \A r \in Reqs, fid \in Ids :
          GoesOn(r, fid) /\ req'[r].kind = "download"
            => (req'[r].pc = "x_exists" <=> PastExpiry(SelectRow(rows, fid), now))
     /\ resp'.kind = "download" /\ resp'.result = "410"
          => Inserted(resp'.fid) /\ PastExpiry(hist[resp'.fid], now)
     /\ \A r \in Reqs :
          req[r].pc = "d_exists" /\ req'[r] = Idle => resp'.result = "404"
    ]_vars

\* C5 witness: a record expired and was purged without ever being served, and
\* a download of its id has just answered 404
C5_Witness ==
  /\ resp.kind = "download"
  /\ resp.result = "404"
  /\ Removed(resp.fid)
  /\ PastExpiry(hist[resp.fid], now)
  /\ served[resp.fid] = 0
  /\ Quiescent

\* C5 as stated: every download of an id whose record was created and has
\* expired answers 410, also after an earlier request purged the record
C5_Original ==
  [][\A fid \in Ids :
       /\ AnswersAtOnce(fid)
       /\ resp'.kind = "download"
       /\ Inserted(fid)
       /\ PastExpiry(hist[fid], now)
       => resp'.result = "410"
    ]_vars

\* C6 (as amended): when no request is in progress every row has its file,
\* also after a failed removal; a file without a row is left behind only by a
\* removal or an upload write that failed
C6_RowHasFile ==
  Quiescent =>
    \A id \in Ids :
      /\ RowPresent(id) => FilePath(SelectRow(rows, id)) \in files
      /\ id \in files /\ ~RowPresent(id) => hist[id].failed

\* C6 witness: os.remove failed during a purge; the row is gone, the file is
\* still in the directory, no request is in progress
C6_Witness ==
  /\ Quiescent
  /\ \E id \in Ids : Removed(id) /\ id \in files /\ hist[id].failed

\* C6 as stated, for the ids whose upload completed: when no request is in
\* progress the row is present exactly when the file is, including after a
\* failed removal
C6_Original ==
  Quiescent => \A id \in Ids : Inserted(id) => (RowPresent(id) <=> id \in files)

\* the larger / smaller of two integers
Max(a, b) == IF a > b THEN a ELSE b
Min(a, b) == IF a < b THEN a ELSE b

\* C7: the record read back when the upload answers has downloads = 0 and
\* expires_at = NULL for e = 0, otherwise created_at + min(max(e,1),168) hours
C7_ExpiryPolicy ==
  resp.kind = "upload" /\ resp.result = "redirect" /\ resp.hours >= 0
    => LET x == SelectRow(rows, resp.fid)
           e == resp.hours
       IN  /\ x # NoRow
           /\ x.downloads = 0
           /\ e = 0 => x.expires_at = NULL
           /\ e > 0 => /\ x.expires_at # NULL
                       /\ from_iso(x.expires_at)
                            = from_iso(x.created_at) + Min(Max(e, 1), MAX_HOURS) * HOUR

\* C8: downloads never decreases, and across a step it grows by one when a
\* download response of the record is completed in that step (closed after
\* the whole stream) and by nothing otherwise
C8_CountsCompleted ==
  [][\A x \in rows : \A y \in rows' :
       x.id = y.id
         => y.downloads = x.downloads
               + (IF /\ resp'.kind = "download"
                     /\ resp'.fid = x.id
                     /\ resp'.result = "closed"
                     /\ resp'.sent = "full"
                    THEN 1 ELSE 0)
    ]_vars

\* C9: once the row of an id has been removed, the row and the file stay
\* absent, and every view or download looked up from then on finds nothing
\* and answers 404, whatever the requests still in flight do
C9_NoResurrection ==
  [][\A id \in Ids :
       Removed(id)
         => /\ Removed(id)'
            /\ id \notin files
            /\ id \notin files'
            /\ \A r \in Reqs : ~GoesOn(r, id)
            /\ AnswersAtOnce(id) => resp'.result = "404"
    ]_vars

\* C9 witness: the row of an id has been removed while a download of that id,
\* looked up before, has still to run its UPDATE
C9_Witness ==
  \E r \in Reqs :
    /\ req[r].kind = "download"
    /\ req[r].pc = "d_update"
    /\ Removed(req[r].fid)

\* C10: a download that finds the row not expired and the file missing
\* answers 404, increments nothing and deletes the row; the file does not
\* come back, and later lookups of the id answer 404
C10_MissingFile ==
  [][/\ \A r \in Reqs :
          /\ req[r].pc = "d_exists"
          /\ FilePath(req[r].row) \notin files
          /\ req'[r] # req[r]
          => /\ req'[r] = Idle
             /\ resp'.kind = "download" /\ resp'.fid = req[r].fid
             /\ resp'.result = "404"
             /\ SelectRow(rows', req[r].fid) = NoRow
             /\ \A y \in rows' : y \in rows
             /\ served' = served
     /\ \A r \in Reqs, fid \in Ids :
          LET x == SelectRow(rows, fid)
          IN  /\ GoesOn(r, fid) /\ req'[r].kind = "download"
              /\ ~PastExpiry(x, now)
              /\ x.stored_name \notin files
              => req'[r].pc = "d_exists"
     /\ \A id \in Ids :
          Inserted(id) /\ id \notin files => id \notin files'
     /\ \A id \in Ids :
          Removed(id) => /\ Removed(id)'
                         /\ \A r \in Reqs : ~GoesOn(r, id)
                         /\ AnswersAtOnce(id) => resp'.result = "404"
    ]_vars

\* C10 witness: a record without expiry lost its file behind the server, was
\* never served, and a download has answered 404 with the row purged
C10_Witness ==
  /\ resp.kind = "download"
  /\ resp.result = "404"
  /\ Removed(resp.fid)
  /\ hist[resp.fid].expires_at = NULL
  /\ served[resp.fid] = 0

\* C11: a detail view of an id whose row is in the table and whose file is
\* not in the directory removes the row and answers 404, whether it answers
\* at its lookup or after a purge
C11_ViewMissingFile ==
  [][/\ \A fid \in Ids :
          LET x == SelectRow(rows, fid)
          IN  /\ x # NoRow
              /\ FilePath(x) \notin files
              /\ AnswersAtOnce(fid)
              /\ resp'.kind = "view"
              => /\ resp'.result = "404"
                 /\ SelectRow(rows', fid) = NoRow
     /\ \A r \in Reqs :
          /\ req[r].kind = "view"
          /\ req[r].pc = "x_exists"
          /\ FilePath(req[r].row) \notin files
          /\ req'[r] = Idle
          => /\ resp'.result = "404"
             /\ SelectRow(rows', req[r].fid) = NoRow
    ]_vars

\* C12: a download of a one-time record that has passed the expiry and the
\* file checks is followed, once its response is closed - after the whole
\* stream or after a part of it - by a state in which the row and the file of
\* the record are gone
C12_CleanupOnClose ==
  \A r \in Reqs, fid \in Ids :
    (req[r].pc = "d_update" /\ req[r].fid = fid /\ req[r].row.one_time # 0)
      ~> (~RowPresent(fid) /\ fid \notin files)

\* C12 witness: the cleanup of a one-time record has run after a response
\* that was closed before the whole stream was sent; row and file are gone
C12_Witness ==
  /\ resp.kind = "download"
  /\ resp.result = "cleaned"
  /\ resp.sent = "partial"
  /\ ~RowPresent(resp.fid)
  /\ resp.fid \notin files
  /\ served[resp.fid] = 1

\* C13: a row enters the table only in the INSERT step of the upload that
\* wrote its file: the write has completed without failure, the file is in
\* the directory, and no other row changes in that step; an upload whose file
\* write fails answers 500, leaves the table as it was, and its id never gets
\* a row
C13_UploadOrdering ==
  [][/\ \A y \in rows' :
          (\A x \in rows : x.id # y.id)
            => /\ \E r \in Reqs : /\ req[r].pc = "u_insert"
                                  /\ req[r].fid = y.id
                                  /\ req'[r] = Idle
               /\ y.stored_name \in files
               /\ y.stored_name \in files'
               /\ ~hist[y.id].failed
               /\ y.downloads = 0
               /\ \A z \in rows' : z.id # y.id => z \in rows
               /\ \A x \in rows : x \in rows'
     /\ resp'.kind = "upload" /\ resp'.result = "500"
          => /\ rows' = rows
             /\ SelectRow(rows', resp'.fid) = NoRow
             /\ \A r \in Reqs : req'[r].fid # resp'.fid
     /\ \A id \in Ids :
          hist[id].failed /\ ~Inserted(id) => ~hist'[id].inserted
    ]_vars

\* C13 witness: an upload has failed in its file write, leaving a partial
\* file; its id has no row, and the row of an earlier upload is untouched
C13_Witness ==
  /\ resp.kind = "upload"
  /\ resp.result = "500"
  /\ resp.err = "save"
  /\ resp.fid \in files
  /\ ~RowPresent(resp.fid)
  /\ \E x \in rows : x.id # resp.fid /\ x.stored_name \in files

\* C14: every download ends with the file delivered, with 404 or with 410,
\* never with an unhandled error; in particular a download that has passed
\* the lookup, the expiry check and the file check delivers the file, whatever
\* a concurrent purge or cleanup removes meanwhile
C14_InFlightTolerance ==
  [][/\ resp'.kind = "download" => resp'.result # "500"
     /\ \A r \in Reqs :
          req[r].pc = "d_update" /\ req'[r] # req[r]
            => /\ req'[r].pc = "d_close"
               /\ resp'.result = "file"
    ]_vars

\* C15: a standard record without expiry is never purged: across every step
\* its row stays, unchanged but for downloads, and its file stays; downloads
\* equals the number of responses that carried the file; every view of it
\* answers the page and every download of it goes through the file check and
\* the UPDATE (+1) to the file, never 404 or 410
C15_StandardNeverPurged ==
  [][\A x \in rows :
       x.one_time = 0 /\ x.expires_at = NULL
         => /\ x.stored_name \in files
            /\ x.stored_name \in files'
            /\ x.downloads = served[x.id]
            /\ \E y \in rows' : /\ y = [x EXCEPT !.downloads = y.downloads]
                                /\ y.downloads >= x.downloads
            /\ AnswersAtOnce(x.id) => resp'.kind = "view" /\ resp'.result = "page"
            /\ \A r \in Reqs :
                 GoesOn(r, x.id) => req'[r].kind = "download" /\ req'[r].pc = "d_exists"
            /\ \A r \in Reqs :
                 req[r].kind = "download" /\ req[r].fid = x.id /\ req'[r] # req[r]
                   => /\ req[r].pc \in {"d_exists", "d_update", "d_close"}
                      /\ req[r].pc = "d_exists" => req'[r].pc = "d_update"
                      /\ req[r].pc = "d_update"
                           => /\ req'[r].pc = "d_close"
                              /\ resp'.result = "file"
                              /\ SelectRow(rows', x.id).downloads = x.downloads + 1
                      /\ req[r].pc = "d_close"
                           => req'[r] = Idle /\ resp'.result = "closed"
    ]_vars

\* C15 witness: a standard record without expiry has been downloaded
\* MaxDownloads times, the last response has just been closed, no request is
\* in progress, and the row and the file are there
C15_Witness ==
  /\ Quiescent
  /\ resp.kind = "download"
  /\ resp.result = "closed"
  /\ \E x \in rows : /\ x.id = resp.fid
                     /\ x.one_time = 0
                     /\ x.expires_at = NULL
                     /\ x.downloads = MaxDownloads
                     /\ served[x.id] = MaxDownloads
                     /\ x.stored_name \in files

\* the ids of a listing
ListedIds(l) == {l[i] : i \in 1..Len(l)}

\* C16: a listing changes no row, no file and no handler, and it shows every
\* row of the table (up to the limit), the rows past their expires_at included
C16_RecentPureRead ==
  [][resp'.kind = "recent"
       => /\ rows' = rows
          /\ files' = files
          /\ req' = req
          /\ <<now', nextId', hist', served'>> = <<now, nextId, hist, served>>
          /\ Cardinality(rows) <= RECENT_LIMIT
               => ListedIds(resp'.list) = {x.id : x \in rows}
          /\ \A x \in rows :
               PastExpiry(x, now) /\ Cardinality(rows) <= RECENT_LIMIT
                 => x.id \in ListedIds(resp'.list) /\ x \in rows'
    ]_vars

\* C16 witness: a listing has just shown a record that is past its
\* expires_at and still in the table, with its file
C16_Witness ==
  /\ resp.kind = "recent"
  /\ \E x \in rows : /\ PastExpiry(x, now)
                     /\ x.id \in ListedIds(resp.list)
                     /\ x.stored_name \in files

\* created_at, as an instant, of the row of fid
CreatedOf(fid) == from_iso(SelectRow(rows, fid).created_at)

\* C17: a listing holds min(RECENT_LIMIT, number of rows) ids of rows of the
\* table, no id twice, in the order of created_at from the latest on, and no
\* row left out is later than a row listed
C17_RecentLatestFirst ==
  resp.kind = "recent"
    => LET l == resp.list
       IN  /\ Len(l) = Min(RECENT_LIMIT, Cardinality(rows))
           /\ Len(l) <= RECENT_LIMIT
           /\ \A i \in 1..Len(l) : RowPresent(l[i])
           /\ \A i, j \in 1..Len(l) : i < j => l[i] # l[j]
           /\ \A i, j \in 1..Len(l) : i < j => CreatedOf(l[i]) >= CreatedOf(l[j])
           /\ \A x \in rows :
                x.id \notin ListedIds(l)
                  => \A i \in 1..Len(l) : CreatedOf(l[i]) >= from_iso(x.created_at)

\* C17 witness: a table of more than RECENT_LIMIT rows has been listed:
\* RECENT_LIMIT ids are shown, and a row left out has the same created_at as
\* the last one shown
C17_Witness ==
  /\ resp.kind = "recent"
  /\ Cardinality(rows) > RECENT_LIMIT
  /\ Len(resp.list) = RECENT_LIMIT
  /\ \E x \in rows : /\ x.id \notin ListedIds(resp.list)
                     /\ from_iso(x.created_at) = CreatedOf(resp.list[RECENT_LIMIT])

\* handler r is inside _delete_file_record, for a purge or for a cleanup
Deleting(r) == req[r].pc \in {"x_exists", "x_remove", "x_delrow"}

\* C18: _delete_file_record never raises, whether it runs alone, after
\* another one or together with another one on the same record; when it
\* returns the row and the file are absent; run on a record whose row and file
\* are already absent it changes nothing
C18_DeleteIdempotent ==
  [][\A r \in Reqs :
       Deleting(r) /\ req'[r] # req[r]
         => /\ req'[r].err = ""
            /\ req'[r] = Idle
                 => /\ req[r].err = ""
                    /\ resp'.result # "500"
                    /\ SelectRow(rows', req[r].row.id) = NoRow
                    /\ FilePath(req[r].row) \notin files'
            /\ ~RowPresent(req[r].row.id) /\ FilePath(req[r].row) \notin files
                 => rows' = rows /\ files' = files
    ]_vars

\* the step is a step of a download of fid by handler r
DownloadStep(r, fid) ==
  \/ req[r].kind = "download" /\ req[r].fid = fid /\ req'[r] # req[r]
  \/ GoesOn(r, fid) /\ req'[r].kind = "download"
  \/ req[r] = Idle /\ AnswersAtOnce(fid) /\ resp'.kind = "download"

\* C19: a step of a download of an id leaves the rows and the files of every
\* other id as they are, adds no row and no file, and changes the row of the
\* id in downloads only, by +1, in the step that runs the UPDATE; it removes
\* the row or the file of the id only in the purge of an expired record, in
\* the cleanup of a one-time record that was served, or for a missing file;
\* a download that answers 404 or 410 has not changed downloads
C19_DownloadFrame ==
  [][\A r \in Reqs, fid \in Ids :
       DownloadStep(r, fid)
         => /\ \A x \in rows : x.id # fid => x \in rows'
            /\ \A y \in rows' : y.id # fid => y \in rows
            /\ \A n \in Ids : n # fid => (n \in files <=> n \in files')
            /\ files' \subseteq files
            /\ <<now', nextId'>> = <<now, nextId>>
            /\ \A y \in rows' :
                 y.id = fid
                   => \E x \in rows :
                        /\ y = [x EXCEPT !.downloads = y.downloads]
                        /\ y.downloads \in {x.downloads, x.downloads + 1}
                        /\ y.downloads # x.downloads => req[r].pc = "d_update"
            /\ resp'.result = "file"
                 => SelectRow(rows', fid) = NoRow
                      \/ SelectRow(rows', fid).downloads = SelectRow(rows, fid).downloads + 1
            /\ resp'.result \in {"404", "410"} => req[r].pc \in {"idle", "d_exists", "x_exists", "x_delrow"}
            /\ rows' # rows /\ req[r].pc # "d_update"
                 => \/ req[r].pc = "d_exists" /\ FilePath(req[r].row) \notin files
                    \/ Deleting(r) /\ req[r].result = "file" /\ req[r].row.one_time # 0
                    \/ Deleting(r) /\ req[r].result = "" /\ PastExpiry(req[r].row, now)
            /\ files' # files
                 => /\ req[r].pc = "x_remove"
                    /\ \/ req[r].result = "file" /\ req[r].row.one_time # 0
                       \/ req[r].result = "" /\ PastExpiry(req[r].row, now)
    ]_vars

\* C19 witness: two records are in the table; a download has just delivered
\* the file of one, whose downloads is 1, and the other record has its row
\* with downloads 0 and its file
C19_Witness ==
  /\ resp.kind = "download"
  /\ resp.result = "file"
  /\ SelectRow(rows, resp.fid).downloads = 1
  /\ \E x \in rows : /\ x.id # resp.fid
                     /\ x.downloads = 0
                     /\ x.stored_name \in files

\* C20: a view of an id without a row answers 404, a view of a record that
\* is not past its expires_at answers the page; either answers at its lookup
\* and changes no row (no increment, no one-time use consumed), no file and
\* nothing else of the store
C20_ViewFrame ==
  [][\A fid \in Ids :
       LET x == SelectRow(rows, fid)
       IN  /\ AnswersAtOnce(fid) /\ resp'.kind = "view"
                => /\ rows' = rows
                   /\ files' = files
                   /\ <<now', nextId', served'>> = <<now, nextId, served>>
                   /\ resp'.result = (IF x = NoRow THEN "404" ELSE "page")
                   /\ x # NoRow => ~PastExpiry(x, now)
           /\ x = NoRow \/ ~PastExpiry(x, now)
                => \A r \in Reqs : ~(GoesOn(r, fid) /\ req'[r].kind = "view")
    ]_vars

\* C20 witness: a view of a one-time record, at the very instant of its
\* expires_at, has answered the page; the row is there with downloads 0, the
\* file is there, nothing was served
C20_Witness ==
  /\ resp.kind = "view"
  /\ resp.result = "page"
  /\ \E x \in rows : /\ x.id = resp.fid
                     /\ x.one_time # 0
                     /\ x.downloads = 0
                     /\ x.expires_at # NULL
                     /\ from_iso(x.expires_at) = now
                     /\ x.stored_name \in files
                     /\ served[x.id] = 0

====
